---- MODULE Spec2Model ----
(***************************************************************************)
(* The wallet ledger, tip settlement and referral cascade of the Givta     *)
(* backend (src/src/services/WalletService.ts, ReferralService.ts), as a   *)
(* state machine over the Firestore collections.  Every service call is a  *)
(* task; one action is one awaited store or gateway call of that task, so  *)
(* tasks interleave exactly where the code awaits.                         *)
(***************************************************************************)
EXTENDS Integers, FiniteSets, Sequences, TLC

\* ------------------------------------------------------------------ bounds
MaxTasks == 2
MaxCalls == 2
MaxFaults == 1
MaxWallets == 4

\* ------------------------------------------------- constants of the program
TipFeePercent == 2
WithdrawalFeePerMille == 23
WithdrawalDailyLimit == 1000000
HistoryLimit == 100
MIN_ACTIVE_DAYS == 30
MAX_REFERRAL_LEVELS == 3

Users == {"u1", "u2", "u3", "u4"}
WalletUsers == {"u1", "u2"}
Platforms == {"whatsapp", "mobile_app"}
Amounts == {5, 25}
WithdrawalAmounts == {50, 100}
InitBalances == {50, 100}
TaskIds == 1..MaxTasks
WalletIds == 1..MaxWallets

VARIABLES
  wallets,       \* collections.wallets: document id -> wallet document
  transactions,  \* collections.transactions: set of transaction documents
  tips,          \* collections.tips: set of tip documents
  referrals,     \* collections.referrals: document id -> referral document
  users,         \* collections.users: user id -> user document
  payouts,       \* transfers accepted by the payment gateway
  webhookLogs,   \* collections.webhookLogs: document id -> log document
  now,           \* the current day
  tasks,         \* the calls in flight: task id -> locals and position
  calls,         \* number of calls started so far
  faults,        \* number of store writes that have failed so far
  expected       \* per user: initial balance plus the amounts of the calls
                 \* that reported success (what a serial ledger would hold)

vars == <<wallets, transactions, tips, referrals, users, payouts, webhookLogs,
          now, tasks, calls, faults, expected>>

\* ------------------------------------------------------------------ models
NoWallet ==
  [id |-> 0, userId |-> "", balance |-> 0, totalDeposits |-> 0,
   totalWithdrawals |-> 0, totalTipsSent |-> 0, totalTipsReceived |-> 0,
   totalReferralEarnings |-> 0]

createWalletData(id, userId) ==
  [id |-> id, userId |-> userId, balance |-> 0, totalDeposits |-> 0,
   totalWithdrawals |-> 0, totalTipsSent |-> 0, totalTipsReceived |-> 0,
   totalReferralEarnings |-> 0]

\* createdAt is the day of "new Date()"; seq orders the documents written on
\* one day (a document written later has the later timestamp)
createTransactionData(call, kind, userId, type, amount, status, fee, netAmount) ==
  [id |-> <<call, kind>>, userId |-> userId, type |-> type, amount |-> amount,
   status |-> status, fee |-> fee, netAmount |-> netAmount, createdAt |-> now,
   seq |-> Cardinality(transactions)]

Min(S) == CHOOSE x \in S : \A y \in S : x <= y

\* Math.round(x / d) for x >= 0: half-up to a whole unit
RoundDiv(x, d) == (2 * x + d) \div (2 * d)

\* a fee that truncates instead of rounding
TipFeeTruncated(platform, amount) == (amount * TipFeePercent) \div 100

\* processTip's fee: the same rate on both platforms
TipFee(platform, amount) ==
  IF platform = "mobile_app"
  THEN RoundDiv(amount * TipFeePercent, 100)
  ELSE RoundDiv(amount * TipFeePercent, 100)

WithdrawalFee(amount) == RoundDiv(amount * WithdrawalFeePerMille, 1000)

Abs(x) == IF x < 0 THEN -x ELSE x

RECURSIVE SumAbsAmounts(_)
SumAbsAmounts(S) ==
  IF S = {} THEN 0
  ELSE LET x == CHOOSE y \in S : TRUE
       IN  Abs(x.amount) + SumAbsAmounts(S \ {x})

Limits(type) ==
  CASE type = "tip" ->
         [minimum |-> 10, maximum |-> 50000, dailyLimit |-> 100000]
    [] type = "withdrawal" ->
         [minimum |-> 100, maximum |-> 500000, dailyLimit |-> 1000000]
    [] type = "deposit" ->
         [minimum |-> 100, maximum |-> 2000000, dailyLimit |-> 5000000]

\* a validation that totals today's transactions of every type
validateTransactionLimitsAnyType(amount, type, userTransactions) ==
  LET limit == Limits(type)
      todayTotal == SumAbsAmounts({x \in userTransactions : x.createdAt >= now})
  IN  IF amount < limit.minimum THEN "Minimum amount"
      ELSE IF amount > limit.maximum THEN "Maximum amount"
      ELSE IF todayTotal + amount > limit.dailyLimit THEN "Daily limit exceeded"
      ELSE ""

\* the error of validateTransactionLimits, "" when valid
validateTransactionLimits(amount, type, userTransactions) ==
  LET limit == Limits(type)
      todayTransactions ==
        {x \in userTransactions :
           x.createdAt >= now /\
           x.type = (IF type = "tip" THEN "tip_sent" ELSE type)}
      todayTotal == SumAbsAmounts(todayTransactions)
  IN  IF amount < limit.minimum THEN "Minimum amount"
      ELSE IF amount > limit.maximum THEN "Maximum amount"
      ELSE IF todayTotal + amount > limit.dailyLimit THEN "Daily limit exceeded"
      ELSE ""

\* ------------------------------------------------------------ store reads
\* where('userId', '==', userId).limit(1): the first match in document-id order
WalletIn(ws, userId) ==
  LET ids == {i \in DOMAIN ws : ws[i].userId = userId}
  IN  IF ids = {} THEN NoWallet ELSE ws[Min(ids)]

\* a lookup that falls back to the first wallet document of the collection
getWalletByUserIdOrFirst(userId) ==
  IF WalletIn(wallets, userId) = NoWallet /\ DOMAIN wallets # {}
  THEN wallets[Min(DOMAIN wallets)]
  ELSE WalletIn(wallets, userId)

getWalletByUserId(userId) == WalletIn(wallets, userId)

Balance(userId) == getWalletByUserId(userId).balance

\* ------------------------------------------------------------------ tasks
IdleTask ==
  [op |-> "none", pc |-> "idle", call |-> 0, userId |-> "", otherId |-> "",
   amount |-> 0, wallet |-> NoWallet, wallet2 |-> NoWallet,
   platform |-> "", success |-> FALSE, error |-> "", at |-> "",
   level |-> 0, referrer |-> "", refId |-> <<0, 0>>, bonusProcessed |-> FALSE,
   queue |-> {}, processed |-> 0, failed |-> 0, faulted |-> FALSE,
   event |-> "", signature |-> "", reference |-> 0, found |-> <<>>,
   before |-> <<>>, after |-> <<>>, beforeReferrals |-> <<>>,
   beforeTransactions |-> {}]

\* a call enters a free slot; before and beforeReferrals remember the wallets
\* and referrals it found
NewTask(op, userId, otherId, amount) ==
  [IdleTask EXCEPT !.op = op, !.call = calls + 1, !.userId = userId,
                   !.otherId = otherId, !.amount = amount, !.before = wallets,
                   !.beforeReferrals = referrals]

\* the call returns {success, error}; at remembers the step it returned from,
\* after the wallets it left
Returned(tk, ok, err, ws) ==
  [tk EXCEPT !.pc = "done", !.success = ok, !.error = err, !.at = tk.pc,
             !.wallet = NoWallet, !.wallet2 = NoWallet, !.after = ws]

\* a new call takes the first free slot
FreeSlots == {t \in TaskIds : tasks[t].pc \in {"idle", "done"}}

CanStart(t) == FreeSlots # {} /\ t = Min(FreeSlots) /\ calls < MaxCalls

CanFail == faults < MaxFaults

StoreError == "Store write failed"

\* a store write rejected with an exception, caught by the call's catch block
Throws(t, err) ==
  /\ tasks' = [tasks EXCEPT ![t] = Returned(tasks[t], FALSE, err, wallets)]
  /\ UNCHANGED <<wallets, transactions, tips, referrals, users, payouts, now,
                 calls, expected, webhookLogs>>

\* a collections.*.set / update that rejects
WriteFails(t) ==
  /\ CanFail
  /\ faults' = faults + 1
  /\ Throws(t, StoreError)

BalanceIn(ws, userId) == WalletIn(ws, userId).balance

\* a balance check that looks at the wrong side of zero
InsufficientBalanceSignOnly(wallet, amount) == wallet.balance < 0

\* "if (wallet.balance < amount) throw new Error('Insufficient balance')"
InsufficientBalance(wallet, amount) == wallet.balance < amount

\* a self-tip check that never matches
SelfTipNeverMatches(senderId, recipientId) == FALSE

\* "if (senderId === recipientId) throw new Error('Cannot tip yourself')"
SelfTip(senderId, recipientId) == senderId = recipientId

\* ------------------------------------------------- WalletService.creditWallet
creditWalletRead(t) ==
  /\ CanStart(t)
  /\ \E userId \in WalletUsers, amount \in Amounts :
       LET wallet == getWalletByUserId(userId)
           tk == NewTask("creditWallet", userId, "", amount)
       IN  tasks' = [tasks EXCEPT ![t] =
             IF wallet = NoWallet
             THEN Returned(tk, FALSE, "Wallet not found", wallets)
             ELSE [tk EXCEPT !.pc = "creditUpdate", !.wallet = wallet]]
  /\ calls' = calls + 1
  /\ UNCHANGED <<wallets, transactions, tips, referrals, users, payouts, now,
                 faults, expected, webhookLogs>>

creditWalletUpdate(t) ==
  LET tk == tasks[t]
      wallet == tk.wallet
  IN  /\ tk.pc = "creditUpdate"
      /\ \/ /\ wallets' = [wallets EXCEPT
                   ![wallet.id].balance = wallet.balance + tk.amount,
                   ![wallet.id].totalDeposits = wallet.totalDeposits + tk.amount]
            /\ tasks' = [tasks EXCEPT ![t].pc = "creditRecord"]
            /\ UNCHANGED <<transactions, tips, referrals, users, payouts, now,
                           calls, faults, expected, webhookLogs>>
         \/ WriteFails(t)

creditWalletRecord(t) ==
  LET tk == tasks[t]
  IN  /\ tk.pc = "creditRecord"
      /\ \/ /\ transactions' = transactions \cup
                   {createTransactionData(tk.call, "credit", tk.userId, "deposit",
                                          tk.amount, "completed", 0, tk.amount)}
            /\ tasks' = [tasks EXCEPT ![t] = Returned(tk, TRUE, "", wallets)]
            /\ expected' = [expected EXCEPT ![tk.userId] = @ + tk.amount]
            /\ UNCHANGED <<wallets, tips, referrals, users, payouts, now,
                           calls, faults, webhookLogs>>
         \/ WriteFails(t)

\* -------------------------------------------------- WalletService.debitWallet
debitWalletRead(t) ==
  /\ CanStart(t)
  /\ \E userId \in WalletUsers, amount \in Amounts :
       LET wallet == getWalletByUserId(userId)
           tk == NewTask("debitWallet", userId, "", amount)
       IN  tasks' = [tasks EXCEPT ![t] =
             IF wallet = NoWallet
             THEN Returned(tk, FALSE, "Wallet not found", wallets)
             ELSE IF InsufficientBalance(wallet, amount)
             THEN Returned(tk, FALSE, "Insufficient balance", wallets)
             ELSE [tk EXCEPT !.pc = "debitUpdate", !.wallet = wallet]]
  /\ calls' = calls + 1
  /\ UNCHANGED <<wallets, transactions, tips, referrals, users, payouts, now,
                 faults, expected, webhookLogs>>

debitWalletUpdate(t) ==
  LET tk == tasks[t]
      wallet == tk.wallet
  IN  /\ tk.pc = "debitUpdate"
      /\ \/ /\ wallets' = [wallets EXCEPT
                   ![wallet.id].balance = wallet.balance - tk.amount,
                   ![wallet.id].totalWithdrawals = wallet.totalWithdrawals + tk.amount]
            /\ tasks' = [tasks EXCEPT ![t].pc = "debitRecord"]
            /\ UNCHANGED <<transactions, tips, referrals, users, payouts, now,
                           calls, faults, expected, webhookLogs>>
         \/ WriteFails(t)

debitWalletRecord(t) ==
  LET tk == tasks[t]
  IN  /\ tk.pc = "debitRecord"
      /\ \/ /\ transactions' = transactions \cup
                   {createTransactionData(tk.call, "debit", tk.userId, "withdrawal",
                                          -tk.amount, "completed", 0, tk.amount)}
            /\ tasks' = [tasks EXCEPT ![t] = Returned(tk, TRUE, "", wallets)]
            /\ expected' = [expected EXCEPT ![tk.userId] = @ - tk.amount]
            /\ UNCHANGED <<wallets, tips, referrals, users, payouts, now,
                           calls, faults, webhookLogs>>
         \/ WriteFails(t)

\* --------------------------------------------------- WalletService.processTip
\* The two callers: POST /api/tips/send (platform mobile_app) passes any
\* amount > 0; the bot's /tip command (platform whatsapp) passes amounts in
\* [10, 50000] to a recipient other than the sender.
CallerAccepts(platform, senderId, recipientId, amount) ==
  IF platform = "mobile_app"
  THEN amount > 0
  ELSE amount >= 10 /\ amount <= 50000 /\ recipientId # senderId

\* a check that goes straight to the recipient's credit
processTipCheckCreditFirst(tk, recipientWallet, ws) ==
  IF InsufficientBalance(tk.wallet, tk.amount)
  THEN Returned(tk, FALSE, "Insufficient balance", ws)
  ELSE [tk EXCEPT !.pc = "tipUpdateRecipient", !.wallet2 = recipientWallet]

\* the synchronous part after both wallets are known: fee, balance check
processTipCheck(tk, recipientWallet, ws) ==
  IF InsufficientBalance(tk.wallet, tk.amount)
  THEN Returned(tk, FALSE, "Insufficient balance", ws)
  ELSE [tk EXCEPT !.pc = "tipUpdateSender", !.wallet2 = recipientWallet]

processTipSender(t) ==
  /\ CanStart(t)
  /\ \E platform \in Platforms, senderId \in WalletUsers,
        recipientId \in WalletUsers, amount \in Amounts :
       /\ CallerAccepts(platform, senderId, recipientId, amount)
       /\ LET senderWallet == getWalletByUserId(senderId)
              tk == [NewTask("processTip", senderId, recipientId, amount)
                       EXCEPT !.platform = platform]
          IN  tasks' = [tasks EXCEPT ![t] =
                IF SelfTip(senderId, recipientId)
                THEN Returned(tk, FALSE, "Cannot tip yourself", wallets)
                ELSE IF senderWallet = NoWallet
                THEN Returned(tk, FALSE, "Sender wallet not found", wallets)
                ELSE [tk EXCEPT !.pc = "tipRecipient", !.wallet = senderWallet]]
  /\ calls' = calls + 1
  /\ UNCHANGED <<wallets, transactions, tips, referrals, users, payouts, now,
                 faults, expected, webhookLogs>>

processTipRecipient(t) ==
  LET tk == tasks[t]
      recipientWallet == getWalletByUserId(tk.otherId)
  IN  /\ tk.pc = "tipRecipient"
      /\ tasks' = [tasks EXCEPT ![t] =
            IF recipientWallet = NoWallet
            THEN [tk EXCEPT !.pc = "tipCreateWallet"]
            ELSE processTipCheck(tk, recipientWallet, wallets)]
      /\ UNCHANGED <<wallets, transactions, tips, referrals, users, payouts, now,
                     calls, faults, expected, webhookLogs>>

\* createWallet(recipientId): a new document under a fresh uuid
processTipCreateWallet(t) ==
  LET tk == tasks[t]
  IN  /\ tk.pc = "tipCreateWallet"
      /\ \/ \E id \in WalletIds \ DOMAIN wallets :
              LET walletData == createWalletData(id, tk.otherId)
                  ws == [i \in DOMAIN wallets \cup {id} |->
                           IF i = id THEN walletData ELSE wallets[i]]
              IN  /\ wallets' = ws
                  /\ tasks' = [tasks EXCEPT ![t] = processTipCheck(tk, walletData, ws)]
                  /\ UNCHANGED <<transactions, tips, referrals, users, payouts,
                                 now, calls, faults, expected, webhookLogs>>
         \/ WriteFails(t)

processTipUpdateSender(t) ==
  LET tk == tasks[t]
      senderWallet == tk.wallet
  IN  /\ tk.pc = "tipUpdateSender"
      /\ \/ /\ wallets' = [wallets EXCEPT
                   ![senderWallet.id].balance = senderWallet.balance - tk.amount,
                   ![senderWallet.id].totalTipsSent =
                       senderWallet.totalTipsSent + tk.amount]
            /\ tasks' = [tasks EXCEPT ![t].pc = "tipUpdateRecipient"]
            /\ UNCHANGED <<transactions, tips, referrals, users, payouts, now,
                           calls, faults, expected, webhookLogs>>
         \/ WriteFails(t)

processTipUpdateRecipient(t) ==
  LET tk == tasks[t]
      recipientWallet == tk.wallet2
      netAmount == tk.amount - TipFee(tk.platform, tk.amount)
  IN  /\ tk.pc = "tipUpdateRecipient"
      /\ \/ /\ wallets' = [wallets EXCEPT
                   ![recipientWallet.id].balance = recipientWallet.balance + netAmount,
                   ![recipientWallet.id].totalTipsReceived =
                       recipientWallet.totalTipsReceived + netAmount]
            /\ tasks' = [tasks EXCEPT ![t].pc = "tipRecord"]
            /\ UNCHANGED <<transactions, tips, referrals, users, payouts, now,
                           calls, faults, expected, webhookLogs>>
         \/ WriteFails(t)

processTipRecord(t) ==
  LET tk == tasks[t]
      fee == TipFee(tk.platform, tk.amount)
  IN  /\ tk.pc = "tipRecord"
      /\ \/ /\ tips' = tips \cup
                   {[id |-> tk.call, senderId |-> tk.userId,
                     recipientId |-> tk.otherId, amount |-> tk.amount,
                     fee |-> fee, netAmount |-> tk.amount - fee,
                     status |-> "completed", platform |-> tk.platform]}
            /\ tasks' = [tasks EXCEPT ![t].pc =
                           IF fee > 0 THEN "tipFeeTransaction"
                                      ELSE "tipSenderTransaction"]
            /\ UNCHANGED <<wallets, transactions, referrals, users, payouts, now,
                           calls, faults, expected, webhookLogs>>
         \/ WriteFails(t)

processTipFeeTransaction(t) ==
  LET tk == tasks[t]
      fee == TipFee(tk.platform, tk.amount)
  IN  /\ tk.pc = "tipFeeTransaction"
      /\ \/ /\ transactions' = transactions \cup
                   {createTransactionData(tk.call, "fee", tk.userId, "fee",
                                          -fee, "completed", 0, -fee)}
            /\ tasks' = [tasks EXCEPT ![t].pc = "tipSenderTransaction"]
            /\ UNCHANGED <<wallets, tips, referrals, users, payouts, now,
                           calls, faults, expected, webhookLogs>>
         \/ WriteFails(t)

processTipSenderTransaction(t) ==
  LET tk == tasks[t]
      fee == TipFee(tk.platform, tk.amount)
  IN  /\ tk.pc = "tipSenderTransaction"
      /\ \/ /\ transactions' = transactions \cup
                   {createTransactionData(tk.call, "sender", tk.userId, "tip_sent",
                                          -tk.amount, "completed", fee, -tk.amount)}
            /\ tasks' = [tasks EXCEPT ![t].pc = "tipRecipientTransaction"]
            /\ UNCHANGED <<wallets, tips, referrals, users, payouts, now,
                           calls, faults, expected, webhookLogs>>
         \/ WriteFails(t)

processTipRecipientTransaction(t) ==
  LET tk == tasks[t]
      netAmount == tk.amount - TipFee(tk.platform, tk.amount)
  IN  /\ tk.pc = "tipRecipientTransaction"
      /\ \/ /\ transactions' = transactions \cup
                   {createTransactionData(tk.call, "recipient", tk.otherId,
                                          "tip_received", netAmount, "completed",
                                          0, netAmount)}
            /\ tasks' = [tasks EXCEPT ![t] = Returned(tk, TRUE, "", wallets)]
            /\ expected' = [expected EXCEPT ![tk.userId] = @ - tk.amount,
                                            ![tk.otherId] = @ + netAmount]
            /\ UNCHANGED <<wallets, tips, referrals, users, payouts, now,
                           calls, faults, webhookLogs>>
         \/ WriteFails(t)

\* -------------------------------------------- WalletService.processWithdrawal
\* y was created after x
Newer(y, x) ==
  \/ y.createdAt > x.createdAt
  \/ y.createdAt = x.createdAt /\ y.seq > x.seq

\* where('userId', '==', userId).orderBy('createdAt', 'desc').limit(limit):
\* the result of the query, the limit newest documents of the user
getTransactionHistory(userId, limit) ==
  LET own == {x \in transactions : x.userId = userId}
  IN  {{x \in own : Cardinality({y \in own : Newer(y, x)}) < limit}}

processWithdrawalRead(t) ==
  /\ CanStart(t)
  /\ \E userId \in WalletUsers, amount \in WithdrawalAmounts :
       LET wallet == getWalletByUserId(userId)
           tk == NewTask("processWithdrawal", userId, "", amount)
           error == validateTransactionLimits(amount, "withdrawal", {})
       IN  tasks' = [tasks EXCEPT ![t] =
             IF wallet = NoWallet
             THEN Returned(tk, FALSE, "Wallet not found", wallets)
             ELSE IF error # ""
             THEN Returned(tk, FALSE, error, wallets)
             ELSE IF InsufficientBalance(wallet, amount)
             THEN Returned(tk, FALSE, "Insufficient balance", wallets)
             ELSE [tk EXCEPT !.pc = "withdrawalHistory", !.wallet = wallet]]
  /\ calls' = calls + 1
  /\ UNCHANGED <<wallets, transactions, tips, referrals, users, payouts, now,
                 faults, expected, webhookLogs>>

processWithdrawalHistory(t) ==
  LET tk == tasks[t]
  IN  /\ tk.pc = "withdrawalHistory"
      /\ \E recentTransactions \in getTransactionHistory(tk.userId, HistoryLimit) :
           LET todayWithdrawals ==
                 {x \in recentTransactions :
                    x.createdAt >= now /\ x.type = "withdrawal"}
               todayTotal == SumAbsAmounts(todayWithdrawals)
           IN  tasks' = [tasks EXCEPT ![t] =
                 IF todayTotal + tk.amount > WithdrawalDailyLimit
                 THEN Returned(tk, FALSE, "Daily withdrawal limit exceeded", wallets)
                 ELSE [tk EXCEPT !.pc = "withdrawalValidateAccount"]]
      /\ UNCHANGED <<wallets, transactions, tips, referrals, users, payouts, now,
                     calls, faults, expected, webhookLogs>>

\* PaystackService.validateAccount: the gateway resolves the account or not
processWithdrawalValidateAccount(t) ==
  LET tk == tasks[t]
  IN  /\ tk.pc = "withdrawalValidateAccount"
      /\ \/ /\ tasks' = [tasks EXCEPT ![t].pc = "withdrawalTransfer"]
            /\ UNCHANGED <<wallets, transactions, tips, referrals, users, payouts,
                           now, calls, faults, expected, webhookLogs>>
         \/ /\ Throws(t, "Invalid bank account details")
            /\ UNCHANGED faults

\* PaystackService.initiateTransfer(netAmount, ...): accepted or refused
processWithdrawalTransfer(t) ==
  LET tk == tasks[t]
      netAmount == tk.amount - WithdrawalFee(tk.amount)
  IN  /\ tk.pc = "withdrawalTransfer"
      /\ \/ /\ payouts' = payouts \cup
                   {[reference |-> tk.call, userId |-> tk.userId,
                     amount |-> netAmount]}
            /\ tasks' = [tasks EXCEPT ![t].pc = "withdrawalUpdate"]
            /\ UNCHANGED <<wallets, transactions, tips, referrals, users, now,
                           calls, faults, expected, webhookLogs>>
         \/ /\ Throws(t, "Transfer initiation failed")
            /\ UNCHANGED faults

processWithdrawalUpdate(t) ==
  LET tk == tasks[t]
      wallet == tk.wallet
  IN  /\ tk.pc = "withdrawalUpdate"
      /\ \/ /\ wallets' = [wallets EXCEPT
                   ![wallet.id].balance = wallet.balance - tk.amount,
                   ![wallet.id].totalWithdrawals = wallet.totalWithdrawals + tk.amount]
            /\ tasks' = [tasks EXCEPT ![t].pc = "withdrawalTransaction"]
            /\ UNCHANGED <<transactions, tips, referrals, users, payouts, now,
                           calls, faults, expected, webhookLogs>>
         \/ WriteFails(t)

processWithdrawalTransaction(t) ==
  LET tk == tasks[t]
      fee == WithdrawalFee(tk.amount)
  IN  /\ tk.pc = "withdrawalTransaction"
      /\ \/ /\ transactions' = transactions \cup
                   {createTransactionData(tk.call, "withdrawal", tk.userId,
                                          "withdrawal", -tk.amount, "pending", fee,
                                          -(tk.amount - fee))}
            /\ tasks' = [tasks EXCEPT ![t].pc = "withdrawalFeeTransaction"]
            /\ UNCHANGED <<wallets, tips, referrals, users, payouts, now,
                           calls, faults, expected, webhookLogs>>
         \/ WriteFails(t)

\* the fee record, then the notification (which catches its own errors) and
\* the return
processWithdrawalFeeTransaction(t) ==
  LET tk == tasks[t]
      fee == WithdrawalFee(tk.amount)
  IN  /\ tk.pc = "withdrawalFeeTransaction"
      /\ \/ /\ transactions' = transactions \cup
                   {createTransactionData(tk.call, "fee", tk.userId, "fee",
                                          -fee, "completed", 0, -fee)}
            /\ tasks' = [tasks EXCEPT ![t] = Returned(tk, TRUE, "", wallets)]
            /\ expected' = [expected EXCEPT ![tk.userId] = @ - tk.amount]
            /\ UNCHANGED <<wallets, tips, referrals, users, payouts, now,
                           calls, faults, webhookLogs>>
         \/ WriteFails(t)

\* -------------------------------------------------------------- wallet engine
Init ==
  /\ \E balance \in InitBalances, funded \in SUBSET {"u2"} :
       /\ wallets = [i \in {2} \cup {3 : u \in funded} |->
                       IF i = 2
                       THEN [createWalletData(2, "u1") EXCEPT
                               !.balance = balance, !.totalDeposits = balance]
                       ELSE createWalletData(3, "u2")]
       /\ expected = [u \in Users |-> IF u = "u1" THEN balance ELSE 0]
  /\ transactions = {}
  /\ tips = {}
  /\ referrals = <<>>
  /\ users = [u \in Users |-> [referredBy |-> "", createdAt |-> 0]]
  /\ payouts = {}
  /\ webhookLogs = <<>>
  /\ now = 0
  /\ tasks = [t \in TaskIds |-> IdleTask]
  /\ calls = 0
  /\ faults = 0

Step(t) ==
  \/ creditWalletRead(t)
  \/ creditWalletUpdate(t)
  \/ creditWalletRecord(t)
  \/ debitWalletRead(t)
  \/ debitWalletUpdate(t)
  \/ debitWalletRecord(t)
  \/ processTipSender(t)
  \/ processTipRecipient(t)
  \/ processTipCreateWallet(t)
  \/ processTipUpdateSender(t)
  \/ processTipUpdateRecipient(t)
  \/ processTipRecord(t)
  \/ processTipFeeTransaction(t)
  \/ processTipSenderTransaction(t)
  \/ processTipRecipientTransaction(t)
  \/ processWithdrawalRead(t)
  \/ processWithdrawalHistory(t)
  \/ processWithdrawalValidateAccount(t)
  \/ processWithdrawalTransfer(t)
  \/ processWithdrawalUpdate(t)
  \/ processWithdrawalTransaction(t)
  \/ processWithdrawalFeeTransaction(t)

Next == \E t \in TaskIds : Step(t)

Spec == Init /\ [][Next]_vars

\* the same calls, one at a time: a call starts only when no other is in flight
OthersIdle(t) == \A o \in TaskIds \ {t} : tasks[o].pc \in {"idle", "done"}

NextSeq == \E t \in TaskIds : OthersIdle(t) /\ Step(t)

SpecSeq == Init /\ [][NextSeq]_vars

\* ------------------------------------------------------------ ReferralService
ReferredUsers == {u \in Users : users[u].referredBy # ""}

REFERRAL_BONUSES(level) ==
  CASE level = 1 -> 100
    [] level = 2 -> 50
    [] level = 3 -> 25

\* a lookup that finds only the records already marked completed
getReferralByUsersCompleted(referrerId, referredId) ==
  {id \in DOMAIN referrals :
     /\ referrals[id].referrerId = referrerId
     /\ referrals[id].referredId = referredId
     /\ referrals[id].status = "completed"}

\* where('referrerId', '==', ...).where('referredId', '==', ...).limit(1)
getReferralByUsers(referrerId, referredId) ==
  {id \in DOMAIN referrals :
     referrals[id].referrerId = referrerId /\ referrals[id].referredId = referredId}

\* an eligibility test that wants strictly more than the minimum days
checkLevel3EligibilityStrict(userId) ==
  users[userId].createdAt < now - MIN_ACTIVE_DAYS

\* "user.createdAt <= minActiveDate", minActiveDate = now - MIN_ACTIVE_DAYS days
checkLevel3Eligibility(userId) ==
  users[userId].createdAt <= now - MIN_ACTIVE_DAYS

\* a store write of a referral call rejects; the call goes on as its catch
\* blocks decide
Fault(t, next) ==
  /\ CanFail
  /\ faults' = faults + 1
  /\ tasks' = [tasks EXCEPT ![t] = [next EXCEPT !.faulted = TRUE]]
  /\ UNCHANGED <<wallets, transactions, tips, referrals, users, payouts, now,
                 calls, expected, webhookLogs>>

\* processReferral's return after the level-1 record was created
ReferralReturned(tk, ws) == Returned(tk, TRUE, "", ws)

\* the level-1 bonus was completed, or a higher level ended whatever its
\* outcome: what processHigherLevelReferrals does next
AfterLevel(tk, ws) ==
  CASE tk.level = 1 ->
         IF users[tk.userId].referredBy # ""
         THEN [tk EXCEPT !.pc = "referralCreate", !.level = 2,
                         !.amount = REFERRAL_BONUSES(2),
                         !.referrer = users[tk.userId].referredBy,
                         !.refId = <<tk.call, 2>>]
         ELSE ReferralReturned(tk, ws)
    [] tk.level = 2 ->
         IF users[tk.referrer].referredBy # ""
         THEN [tk EXCEPT !.pc = "checkLevel3Eligibility"]
         ELSE ReferralReturned(tk, ws)
    [] OTHER -> ReferralReturned(tk, ws)

\* processPendingBonuses: the next document of the loop, or the return
SweepContinue(tk, ws) ==
  IF tk.queue = {} THEN Returned(tk, TRUE, "", ws)
  ELSE [tk EXCEPT !.pc = "pendingNext"]

\* bonusResult.success is false
BonusFailed(tk, ws) ==
  IF tk.op = "processPendingBonuses"
  THEN SweepContinue([tk EXCEPT !.failed = @ + 1], ws)
  ELSE IF tk.level = 1 THEN ReferralReturned(tk, ws)
  ELSE AfterLevel(tk, ws)

\* the update that marks the record completed rejects: processReferral's catch
\* at level 1, createHigherLevelReferral's catch above, the loop's catch in
\* the sweep
CompleteFailed(tk, ws) ==
  IF tk.op = "processPendingBonuses"
  THEN SweepContinue([tk EXCEPT !.failed = @ + 1], ws)
  ELSE IF tk.level = 1 THEN Returned(tk, FALSE, StoreError, ws)
  ELSE AfterLevel(tk, ws)

\* the record is marked completed
Completed(tk, ws) ==
  IF tk.op = "processPendingBonuses"
  THEN SweepContinue([tk EXCEPT !.processed = @ + 1], ws)
  ELSE AfterLevel(tk, ws)

\* processReferralBonus up to its wallet lookup
BonusRead(tk) ==
  LET wallet == getWalletByUserId(tk.referrer)
  IN  IF wallet = NoWallet THEN BonusFailed(tk, wallets)
      ELSE [tk EXCEPT !.pc = "bonusUpdate", !.wallet = wallet]

\* AuthService.register calls processReferral(referredBy, userId)
processReferralCheck(t) ==
  /\ CanStart(t)
  /\ \E referredId \in ReferredUsers :
       LET referrerId == users[referredId].referredBy
           tk == NewTask("processReferral", referrerId, referredId, 0)
       IN  tasks' = [tasks EXCEPT ![t] =
             IF referrerId \notin DOMAIN users
             THEN Returned(tk, FALSE, "Referrer not found", wallets)
             ELSE IF getReferralByUsers(referrerId, referredId) # {}
             THEN Returned(tk, FALSE, "Referral already exists", wallets)
             ELSE [tk EXCEPT !.pc = "referralCreate", !.level = 1,
                             !.amount = REFERRAL_BONUSES(1),
                             !.referrer = referrerId, !.refId = <<tk.call, 1>>]]
  /\ calls' = calls + 1
  /\ UNCHANGED <<wallets, transactions, tips, referrals, users, payouts, now,
                 faults, expected, webhookLogs>>

\* collections.referrals.doc(referralId).set(referralData), at any level
referralCreate(t) ==
  LET tk == tasks[t]
      referralData ==
        [id |-> tk.refId, referrerId |-> tk.referrer, referredId |-> tk.otherId,
         level |-> tk.level, bonus |-> tk.amount,
         status |-> "pending"]
  IN  /\ tk.pc = "referralCreate"
      /\ \/ /\ referrals' = [id \in DOMAIN referrals \cup {tk.refId} |->
                                IF id = tk.refId THEN referralData ELSE referrals[id]]
            /\ tasks' = [tasks EXCEPT ![t].pc = "bonusRead"]
            /\ UNCHANGED <<wallets, transactions, tips, users, payouts, now,
                           calls, faults, expected, webhookLogs>>
         \/ Fault(t, IF tk.level = 1 THEN Returned(tk, FALSE, StoreError, wallets)
                                     ELSE AfterLevel(tk, wallets))

\* WalletService.processReferralBonus
processReferralBonusRead(t) ==
  /\ tasks[t].pc = "bonusRead"
  /\ tasks' = [tasks EXCEPT ![t] = BonusRead(tasks[t])]
  /\ UNCHANGED <<wallets, transactions, tips, referrals, users, payouts, now,
                 calls, faults, expected, webhookLogs>>

processReferralBonusUpdate(t) ==
  LET tk == tasks[t]
      wallet == tk.wallet
      bonusAmount == tk.amount
  IN  /\ tk.pc = "bonusUpdate"
      /\ \/ /\ wallets' = [wallets EXCEPT
                   ![wallet.id].balance = wallet.balance + bonusAmount,
                   ![wallet.id].totalReferralEarnings =
                       wallet.totalReferralEarnings + bonusAmount]
            /\ tasks' = [tasks EXCEPT ![t].pc = "bonusRecord"]
            /\ UNCHANGED <<transactions, tips, referrals, users, payouts, now,
                           calls, faults, expected, webhookLogs>>
         \/ Fault(t, BonusFailed([tk EXCEPT !.wallet = NoWallet], wallets))

processReferralBonusRecord(t) ==
  LET tk == tasks[t]
      bonusAmount == tk.amount
  IN  /\ tk.pc = "bonusRecord"
      /\ \/ /\ transactions' = transactions \cup
                   {[createTransactionData(tk.call, "bonus", tk.referrer,
                                           "referral_bonus", bonusAmount,
                                           "completed", 0, bonusAmount)
                       EXCEPT !.id = <<tk.call, "bonus", tk.refId>>]}
            /\ tasks' = [tasks EXCEPT ![t] =
                  [tk EXCEPT !.pc = "referralComplete", !.wallet = NoWallet,
                             !.bonusProcessed =
                                 IF tk.op = "processReferral" /\ tk.level = 1
                                 THEN TRUE ELSE @]]
            /\ UNCHANGED <<wallets, tips, referrals, users, payouts, now,
                           calls, faults, expected, webhookLogs>>
         \/ Fault(t, BonusFailed([tk EXCEPT !.wallet = NoWallet], wallets))

\* collections.referrals.doc(referralId).update({status: 'completed', ...})
referralComplete(t) ==
  LET tk == tasks[t]
  IN  /\ tk.pc = "referralComplete"
      /\ \/ /\ referrals' = [referrals EXCEPT ![tk.refId].status = "completed"]
            /\ tasks' = [tasks EXCEPT ![t] = Completed(tk, wallets)]
            /\ UNCHANGED <<wallets, transactions, tips, users, payouts, now,
                           calls, faults, expected, webhookLogs>>
         \/ Fault(t, CompleteFailed(tk, wallets))

\* processHigherLevelReferrals: the level-2 referrer's age decides level 3
processHigherLevelCheck(t) ==
  LET tk == tasks[t]
      level2Referrer == tk.referrer
  IN  /\ tk.pc = "checkLevel3Eligibility"
      /\ tasks' = [tasks EXCEPT ![t] =
            IF checkLevel3Eligibility(level2Referrer)
            THEN [tk EXCEPT !.pc = "referralCreate", !.level = 3,
                            !.amount = REFERRAL_BONUSES(3),
                            !.referrer = users[level2Referrer].referredBy,
                            !.refId = <<tk.call, 3>>]
            ELSE ReferralReturned(tk, wallets)]
      /\ UNCHANGED <<wallets, transactions, tips, referrals, users, payouts, now,
                     calls, faults, expected, webhookLogs>>

\* ReferralService.processPendingBonuses: the query of the pending records
processPendingBonusesQuery(t) ==
  /\ CanStart(t)
  /\ LET tk == NewTask("processPendingBonuses", "", "", 0)
         pending == {referrals[id] : id \in {i \in DOMAIN referrals :
                                               referrals[i].status = "pending"}}
     IN  tasks' = [tasks EXCEPT ![t] =
           SweepContinue([tk EXCEPT !.queue = pending], wallets)]
  /\ calls' = calls + 1
  /\ UNCHANGED <<wallets, transactions, tips, referrals, users, payouts, now,
                 faults, expected, webhookLogs>>

\* the loop takes the next document and retries its bonus
processPendingBonusesNext(t) ==
  LET tk == tasks[t]
  IN  /\ tk.pc = "pendingNext"
      /\ \E referral \in tk.queue :
           tasks' = [tasks EXCEPT ![t] =
             BonusRead([tk EXCEPT !.queue = @ \ {referral},
                                  !.referrer = referral.referrerId,
                                  !.level = referral.level,
                                  !.amount = referral.bonus,
                                  !.refId = referral.id])]
      /\ UNCHANGED <<wallets, transactions, tips, referrals, users, payouts, now,
                     calls, faults, expected, webhookLogs>>

\* the chain u4 -> u3 -> u2 -> u1 of registered users; the level-2 referrer
\* of u4's cascade is u2
InitReferral ==
  /\ \E missing \in SUBSET {"u1", "u2", "u3"} :
       LET owner == <<"u1", "u2", "u3", "u4">>
       IN  wallets = [i \in {j \in 1..4 : owner[j] \notin missing} |->
                        createWalletData(i, owner[i])]
  /\ \E age \in {MIN_ACTIVE_DAYS - 1, MIN_ACTIVE_DAYS, MIN_ACTIVE_DAYS + 1} :
       users = [u \in Users |->
                  CASE u = "u1" -> [referredBy |-> "", createdAt |-> -(age + 1)]
                    [] u = "u2" -> [referredBy |-> "u1", createdAt |-> -age]
                    [] u = "u3" -> [referredBy |-> "u2", createdAt |-> -1]
                    [] u = "u4" -> [referredBy |-> "u3", createdAt |-> 0]]
  /\ expected = [u \in Users |-> 0]
  /\ transactions = {}
  /\ tips = {}
  /\ referrals = <<>>
  /\ payouts = {}
  /\ webhookLogs = <<>>
  /\ now = 0
  /\ tasks = [t \in TaskIds |-> IdleTask]
  /\ calls = 0
  /\ faults = 0

StepReferral(t) ==
  \/ processReferralCheck(t)
  \/ referralCreate(t)
  \/ processReferralBonusRead(t)
  \/ processReferralBonusUpdate(t)
  \/ processReferralBonusRecord(t)
  \/ referralComplete(t)
  \/ processHigherLevelCheck(t)
  \/ processPendingBonusesQuery(t)
  \/ processPendingBonusesNext(t)

NextReferral == \E t \in TaskIds : StepReferral(t)

SpecReferral == InitReferral /\ [][NextReferral]_vars

NextReferralSeq == \E t \in TaskIds : OthersIdle(t) /\ StepReferral(t)

SpecReferralSeq == InitReferral /\ [][NextReferralSeq]_vars

\* ------------------------------------------- WalletService.ensureWalletExists
\* the lookup; an existing wallet is returned as found
ensureWalletExistsRead(t) ==
  /\ CanStart(t)
  /\ \E userId \in WalletUsers :
       LET wallet == getWalletByUserId(userId)
           tk == NewTask("ensureWalletExists", userId, "", 0)
       IN  tasks' = [tasks EXCEPT ![t] =
             IF wallet = NoWallet
             THEN [tk EXCEPT !.pc = "ensureCreate"]
             ELSE [Returned(tk, TRUE, "", wallets) EXCEPT !.wallet = wallet]]
  /\ calls' = calls + 1
  /\ UNCHANGED <<wallets, transactions, tips, referrals, users, payouts, now,
                 faults, expected, webhookLogs>>

\* createWallet(userId): a new document under a fresh uuid; a rejected write
\* is thrown to the caller
ensureWalletExistsCreate(t) ==
  LET tk == tasks[t]
  IN  /\ tk.pc = "ensureCreate"
      /\ \/ \E id \in WalletIds \ DOMAIN wallets :
              LET walletData == createWalletData(id, tk.userId)
                  ws == [i \in DOMAIN wallets \cup {id} |->
                           IF i = id THEN walletData ELSE wallets[i]]
              IN  /\ wallets' = ws
                  /\ tasks' = [tasks EXCEPT ![t] =
                        [Returned(tk, TRUE, "", ws) EXCEPT !.wallet = walletData]]
                  /\ UNCHANGED <<transactions, tips, referrals, users, payouts,
                                 now, calls, faults, expected, webhookLogs>>
         \/ WriteFails(t)

\* the calls that create wallets: ensureWalletExists and processTip
StepWallet(t) ==
  \/ ensureWalletExistsRead(t)
  \/ ensureWalletExistsCreate(t)
  \/ processTipSender(t)
  \/ processTipRecipient(t)
  \/ processTipCreateWallet(t)
  \/ processTipUpdateSender(t)
  \/ processTipUpdateRecipient(t)
  \/ processTipRecord(t)
  \/ processTipFeeTransaction(t)
  \/ processTipSenderTransaction(t)
  \/ processTipRecipientTransaction(t)

NextWallet == \E t \in TaskIds : StepWallet(t)

SpecWallet == Init /\ [][NextWallet]_vars

\* ------------------------------------- processPendingBonuses as a cron job
\* a query that returns only the pending records of level 1
PendingReferralsFirstLevel(rs) ==
  {rs[id] : id \in {i \in DOMAIN rs : rs[i].status = "pending" /\ rs[i].level = 1}}

\* collections.referrals.where('status', '==', 'pending').get()
PendingReferrals(rs) ==
  {rs[id] : id \in {i \in DOMAIN rs : rs[i].status = "pending"}}

\* the sweep run again and again: it is no registration or wallet call, so it
\* takes no call number and is not held back by the number of calls made
processPendingBonusesRepeat(t) ==
  /\ FreeSlots # {}
  /\ t = Min(FreeSlots)
  /\ LET tk == [NewTask("processPendingBonuses", "", "", 0) EXCEPT !.call = 0]
     IN  tasks' = [tasks EXCEPT ![t] =
           SweepContinue([tk EXCEPT !.queue = PendingReferrals(referrals)],
                         wallets)]
  /\ UNCHANGED <<wallets, transactions, tips, referrals, users, payouts, now,
                 calls, faults, expected, webhookLogs>>

\* registrations with their cascades, wallets created later for users that
\* had none, and the sweep
StepSweep(t) ==
  \/ processReferralCheck(t)
  \/ referralCreate(t)
  \/ processReferralBonusRead(t)
  \/ processReferralBonusUpdate(t)
  \/ processReferralBonusRecord(t)
  \/ referralComplete(t)
  \/ processHigherLevelCheck(t)
  \/ processPendingBonusesRepeat(t)
  \/ processPendingBonusesNext(t)
  \/ ensureWalletExistsRead(t)
  \/ ensureWalletExistsCreate(t)

NextSweepSeq == \E t \in TaskIds : OthersIdle(t) /\ StepSweep(t)

\* every awaited store call returns or rejects, and the job that runs the
\* sweep keeps starting it: some enabled step is always taken in the end, and
\* once the calls are used up the sweep is the only call left to start
SweepFairness == WF_vars(NextSweepSeq)

SpecSweepSeq == InitReferral /\ [][NextSweepSeq]_vars /\ SweepFairness

\* ------------------------------------------------- withdrawals against the cap
\* a transaction document written earlier today, the i-th of the day
HistoryTransaction(i, type, amount) ==
  [id |-> <<-i, "history">>, userId |-> "u1", type |-> type, amount |-> amount,
   status |-> "completed", fee |-> 0, netAmount |-> amount, createdAt |-> 0,
   seq |-> i - 1]

\* u1 has already withdrawn the single-withdrawal maximum "withdrawn" times
\* today and has made "later" deposits since
InitWithdrawal ==
  /\ \E withdrawn \in 0..2, later \in {0, HistoryLimit - 1, HistoryLimit} :
       transactions =
         {HistoryTransaction(i, "withdrawal", -Limits("withdrawal").maximum) :
            i \in 1..withdrawn}
         \cup {HistoryTransaction(i, "deposit", Limits("deposit").minimum) :
                 i \in (withdrawn + 1)..(withdrawn + later)}
  /\ \E balance \in {Limits("withdrawal").minimum, 2 * Limits("withdrawal").minimum} :
       /\ wallets = [i \in {2} |->
                       [createWalletData(2, "u1") EXCEPT !.balance = balance]]
       /\ expected = [u \in Users |-> IF u = "u1" THEN balance ELSE 0]
  /\ tips = {}
  /\ referrals = <<>>
  /\ users = [u \in Users |-> [referredBy |-> "", createdAt |-> 0]]
  /\ payouts = {}
  /\ webhookLogs = <<>>
  /\ now = 0
  /\ tasks = [t \in TaskIds |-> IdleTask]
  /\ calls = 0
  /\ faults = 0

StepWithdrawal(t) ==
  \/ processWithdrawalRead(t)
  \/ processWithdrawalHistory(t)
  \/ processWithdrawalValidateAccount(t)
  \/ processWithdrawalTransfer(t)
  \/ processWithdrawalUpdate(t)
  \/ processWithdrawalTransaction(t)
  \/ processWithdrawalFeeTransaction(t)

NextWithdrawalSeq == \E t \in TaskIds : OthersIdle(t) /\ StepWithdrawal(t)

SpecWithdrawalSeq == InitWithdrawal /\ [][NextWithdrawalSeq]_vars

\* ------------------------------------------------ validateTransactionLimits
LimitTypes == {"tip", "withdrawal", "deposit"}

\* the amounts around a type's bounds, and the amounts that meet or pass the
\* daily limit after one or two transactions of the largest amount
LimitAmounts(type) ==
  LET limit == Limits(type)
  IN  {limit.minimum - 1, limit.minimum, limit.maximum, limit.maximum + 1,
       limit.dailyLimit - limit.maximum, limit.dailyLimit - limit.maximum + 1,
       limit.dailyLimit - 2 * limit.maximum,
       limit.dailyLimit - 2 * limit.maximum + 1}

\* a transaction of the list handed to the validation, made on a given day
DatedTransaction(i, type, amount, day) ==
  [HistoryTransaction(i, type, amount) EXCEPT !.createdAt = day]

\* transactions a user can have: of each type, today and yesterday, debits
\* stored with a negative amount
LimitHistory ==
  {DatedTransaction(1, "tip_sent", -Limits("tip").maximum, 0),
   DatedTransaction(2, "tip_sent", -Limits("tip").maximum, 0),
   DatedTransaction(3, "tip_sent", -Limits("tip").maximum, -1),
   DatedTransaction(4, "tip_received", Limits("tip").maximum, 0),
   DatedTransaction(5, "withdrawal", -Limits("withdrawal").maximum, 0),
   DatedTransaction(6, "withdrawal", -Limits("withdrawal").maximum, -1),
   DatedTransaction(7, "deposit", Limits("deposit").maximum, 0),
   DatedTransaction(8, "deposit", Limits("deposit").maximum, 0)}

\* one call of the validation on the user's transactions: it returns at once
validateTransactionLimitsCall(t) ==
  /\ CanStart(t)
  /\ \E type \in LimitTypes :
       \E amount \in LimitAmounts(type) :
         LET tk == [NewTask("validateTransactionLimits", "u1", "", amount)
                      EXCEPT !.event = type,
                             !.beforeTransactions = transactions]
             error == validateTransactionLimits(amount, type, transactions)
         IN  tasks' = [tasks EXCEPT ![t] =
                         Returned(tk, error = "", error, wallets)]
  /\ calls' = calls + 1
  /\ UNCHANGED <<wallets, transactions, tips, referrals, users, payouts, now,
                 faults, expected, webhookLogs>>

InitLimits ==
  /\ transactions \in SUBSET LimitHistory
  /\ wallets = [i \in {2} |-> createWalletData(2, "u1")]
  /\ expected = [u \in Users |-> 0]
  /\ tips = {}
  /\ referrals = <<>>
  /\ users = [u \in Users |-> [referredBy |-> "", createdAt |-> 0]]
  /\ payouts = {}
  /\ webhookLogs = <<>>
  /\ now = 0
  /\ tasks = [t \in TaskIds |-> IdleTask]
  /\ calls = 0
  /\ faults = 0

NextLimits == \E t \in TaskIds : validateTransactionLimitsCall(t)

SpecLimits == InitLimits /\ [][NextLimits]_vars

\* ------------------------------------------------------- gateway webhooks
\* process.env.PAYSTACK_SECRET_KEY is set
SecretConfigured == TRUE

\* the x-paystack-signature header of a delivery: the HMAC of its payload,
\* another value, or absent
Signatures == {"valid", "invalid", "none"}

ChargeEvents == {"charge.success", "charge.failed"}
TransferEvents == {"transfer.success", "transfer.failed", "transfer.reversed"}

\* "if (secret && signature) { ... if (signature !== expectedSignature) return 400 }"
SignatureRejected(signature) ==
  SecretConfigured /\ signature # "none" /\ signature # "valid"

\* where('reference', '==', reference): the payment-link and withdrawal
\* documents carry the gateway's reference, the credits made for a delivery
\* carry the reference passed to creditWallet
TransactionsByReference(reference) ==
  {x \in transactions :
     \/ x.id[2] \in {"payment", "withdrawal"} /\ x.id[1] = reference
     \/ x.id[2] \in {"funding", "refund"} /\ x.id[3] = reference}

\* collections.transactions.doc(id).update({status})
UpdateStatus(id, status) ==
  {IF x.id = id THEN [x EXCEPT !.status = status] ELSE x : x \in transactions}

\* a delivery enters its route
NewDelivery(op, event, signature, reference, amount) ==
  [NewTask(op, "", "", amount) EXCEPT !.event = event, !.signature = signature,
                                      !.reference = reference,
                                      !.beforeTransactions = transactions]

\* the route's catch: status 500
RouteFailed(tk) == Returned(tk, FALSE, "Webhook processing failed", wallets)

\* POST /webhook/paystack up to handleWebhook's duplicate check; the payload
\* carries the amount in kobo
webhookPaystackReceive(t) ==
  /\ CanStart(t)
  /\ \E event \in ChargeEvents, signature \in Signatures,
        x \in {y \in transactions : y.id[2] = "payment"} :
       LET tk == NewDelivery("webhookPaystack", event, signature, x.id[1],
                             100 * x.amount)
           existingLog == {i \in DOMAIN webhookLogs :
                             /\ webhookLogs[i].reference = tk.reference
                             /\ webhookLogs[i].event = event
                             /\ webhookLogs[i].processed}
       IN  tasks' = [tasks EXCEPT ![t] =
             IF SignatureRejected(signature)
             THEN Returned(tk, FALSE, "Invalid signature", wallets)
             ELSE IF existingLog # {}
             THEN Returned(tk, TRUE, "", wallets)
             ELSE [tk EXCEPT !.pc = "webhookLog"]]
  /\ calls' = calls + 1
  /\ UNCHANGED <<wallets, transactions, tips, referrals, users, payouts,
                 webhookLogs, now, faults, expected>>

\* collections.webhookLogs.doc().set({..., processed: false})
handleWebhookLog(t) ==
  LET tk == tasks[t]
      log == [reference |-> tk.reference, event |-> tk.event, processed |-> FALSE]
  IN  /\ tk.pc = "webhookLog"
      /\ \/ /\ webhookLogs' = [i \in DOMAIN webhookLogs \cup {tk.call} |->
                                  IF i = tk.call THEN log ELSE webhookLogs[i]]
            /\ tasks' = [tasks EXCEPT ![t].pc =
                  IF tk.event = "charge.success" THEN "paymentFind"
                  ELSE "paymentFailedFind"]
            /\ UNCHANGED <<wallets, transactions, tips, referrals, users,
                           payouts, now, calls, faults, expected>>
         \/ Fault(t, RouteFailed(tk))

\* processSuccessfulPayment: where('reference', '==', reference).limit(1)
processSuccessfulPaymentFind(t) ==
  LET tk == tasks[t]
      found == TransactionsByReference(tk.reference)
  IN  /\ tk.pc = "paymentFind"
      /\ IF found = {}
         THEN tasks' = [tasks EXCEPT ![t].pc = "webhookMark"]
         ELSE \E x \in found :
                tasks' = [tasks EXCEPT ![t] =
                  [tk EXCEPT !.pc = "paymentComplete", !.found = x.id,
                             !.userId = x.userId]]
      /\ UNCHANGED <<wallets, transactions, tips, referrals, users, payouts,
                     webhookLogs, now, calls, faults, expected>>

\* the transaction is marked completed, then the wallet is credited amount / 100
processSuccessfulPaymentComplete(t) ==
  LET tk == tasks[t]
  IN  /\ tk.pc = "paymentComplete"
      /\ \/ /\ transactions' = UpdateStatus(tk.found, "completed")
            /\ tasks' = [tasks EXCEPT ![t] =
                  [tk EXCEPT !.pc = "webhookCreditRead",
                             !.amount = tk.amount \div 100]]
            /\ UNCHANGED <<wallets, tips, referrals, users, payouts,
                           webhookLogs, now, calls, faults, expected>>
         \/ Fault(t, RouteFailed(tk))

\* after creditWallet returned; neither route looks at its result
AfterCredit(tk) ==
  IF tk.op = "webhookPaystack"
  THEN [tk EXCEPT !.pc = "webhookMark", !.wallet = NoWallet]
  ELSE [tk EXCEPT !.pc = "transferFail", !.wallet = NoWallet]

\* WalletService.creditWallet(userId, amount, description, reference), called
\* by a route
webhookCreditRead(t) ==
  LET tk == tasks[t]
      wallet == getWalletByUserId(tk.userId)
  IN  /\ tk.pc = "webhookCreditRead"
      /\ tasks' = [tasks EXCEPT ![t] =
            IF wallet = NoWallet THEN AfterCredit(tk)
            ELSE [tk EXCEPT !.pc = "webhookCreditUpdate", !.wallet = wallet]]
      /\ UNCHANGED <<wallets, transactions, tips, referrals, users, payouts,
                     webhookLogs, now, calls, faults, expected>>

webhookCreditUpdate(t) ==
  LET tk == tasks[t]
      wallet == tk.wallet
  IN  /\ tk.pc = "webhookCreditUpdate"
      /\ \/ /\ wallets' = [wallets EXCEPT
                   ![wallet.id].balance = wallet.balance + tk.amount,
                   ![wallet.id].totalDeposits = wallet.totalDeposits + tk.amount]
            /\ tasks' = [tasks EXCEPT ![t].pc = "webhookCreditRecord"]
            /\ UNCHANGED <<transactions, tips, referrals, users, payouts,
                           webhookLogs, now, calls, faults, expected>>
         \/ Fault(t, AfterCredit(tk))

webhookCreditRecord(t) ==
  LET tk == tasks[t]
      kind == IF tk.op = "webhookPaystack" THEN "funding" ELSE "refund"
  IN  /\ tk.pc = "webhookCreditRecord"
      /\ \/ /\ transactions' = transactions \cup
                   {[createTransactionData(tk.call, kind, tk.userId, "deposit",
                                           tk.amount, "completed", 0, tk.amount)
                       EXCEPT !.id = <<tk.call, kind, tk.reference>>]}
            /\ tasks' = [tasks EXCEPT ![t] = AfterCredit(tk)]
            /\ UNCHANGED <<wallets, tips, referrals, users, payouts,
                           webhookLogs, now, calls, faults, expected>>
         \/ Fault(t, AfterCredit(tk))

\* processFailedPayment: the transaction found by reference is marked failed
processFailedPaymentFind(t) ==
  LET tk == tasks[t]
      found == TransactionsByReference(tk.reference)
  IN  /\ tk.pc = "paymentFailedFind"
      /\ IF found = {}
         THEN tasks' = [tasks EXCEPT ![t].pc = "webhookMark"]
         ELSE \E x \in found :
                tasks' = [tasks EXCEPT ![t] =
                  [tk EXCEPT !.pc = "paymentFailedUpdate", !.found = x.id]]
      /\ UNCHANGED <<wallets, transactions, tips, referrals, users, payouts,
                     webhookLogs, now, calls, faults, expected>>

processFailedPaymentUpdate(t) ==
  LET tk == tasks[t]
  IN  /\ tk.pc = "paymentFailedUpdate"
      /\ \/ /\ transactions' = UpdateStatus(tk.found, "failed")
            /\ tasks' = [tasks EXCEPT ![t].pc = "webhookMark"]
            /\ UNCHANGED <<wallets, tips, referrals, users, payouts,
                           webhookLogs, now, calls, faults, expected>>
         \/ Fault(t, RouteFailed(tk))

\* "Mark as processed": the query for an unprocessed log of the delivery
handleWebhookMark(t) ==
  LET tk == tasks[t]
      unprocessed == {i \in DOMAIN webhookLogs :
                        /\ webhookLogs[i].reference = tk.reference
                        /\ webhookLogs[i].event = tk.event
                        /\ ~webhookLogs[i].processed}
  IN  /\ tk.pc = "webhookMark"
      /\ tasks' = [tasks EXCEPT ![t] =
            IF unprocessed = {} THEN Returned(tk, TRUE, "", wallets)
            ELSE [tk EXCEPT !.pc = "webhookMarkUpdate",
                            !.found = <<Min(unprocessed)>>]]
      /\ UNCHANGED <<wallets, transactions, tips, referrals, users, payouts,
                     webhookLogs, now, calls, faults, expected>>

\* snapshot.docs[0].ref.update({processed: true}): not awaited, a rejection is
\* not seen by the route
handleWebhookMarkUpdate(t) ==
  LET tk == tasks[t]
  IN  /\ tk.pc = "webhookMarkUpdate"
      /\ \/ /\ webhookLogs' = [webhookLogs EXCEPT ![tk.found[1]].processed = TRUE]
            /\ tasks' = [tasks EXCEPT ![t] = Returned(tk, TRUE, "", wallets)]
            /\ UNCHANGED <<wallets, transactions, tips, referrals, users,
                           payouts, now, calls, faults, expected>>
         \/ Fault(t, Returned(tk, TRUE, "", wallets))

\* POST /webhook/paystack-transfer up to the transaction lookup; the gateway
\* reports on a transfer it accepted
webhookTransferReceive(t) ==
  /\ CanStart(t)
  /\ \E event \in TransferEvents, signature \in Signatures, p \in payouts :
       LET tk == NewDelivery("webhookTransfer", event, signature, p.reference, 0)
           found == {x \in TransactionsByReference(p.reference) :
                       x.type = "withdrawal"}
       IN  \/ /\ SignatureRejected(signature) \/ found = {}
              /\ tasks' = [tasks EXCEPT ![t] =
                    IF SignatureRejected(signature)
                    THEN Returned(tk, FALSE, "Invalid signature", wallets)
                    ELSE Returned(tk, TRUE, "", wallets)]
           \/ /\ ~SignatureRejected(signature)
              /\ \E x \in found :
                   tasks' = [tasks EXCEPT ![t] =
                     [tk EXCEPT !.pc = IF event = "transfer.success"
                                       THEN "transferComplete"
                                       ELSE "webhookCreditRead",
                                !.found = x.id, !.userId = x.userId,
                                !.amount = Abs(x.amount)]]
  /\ calls' = calls + 1
  /\ UNCHANGED <<wallets, transactions, tips, referrals, users, payouts,
                 webhookLogs, now, faults, expected>>

\* transfer.success: the withdrawal is marked completed
webhookTransferComplete(t) ==
  LET tk == tasks[t]
  IN  /\ tk.pc = "transferComplete"
      /\ \/ /\ transactions' = UpdateStatus(tk.found, "completed")
            /\ tasks' = [tasks EXCEPT ![t] = Returned(tk, TRUE, "", wallets)]
            /\ UNCHANGED <<wallets, tips, referrals, users, payouts,
                           webhookLogs, now, calls, faults, expected>>
         \/ Fault(t, RouteFailed(tk))

\* transfer.failed / transfer.reversed: after the refund, the withdrawal is
\* marked failed
webhookTransferFail(t) ==
  LET tk == tasks[t]
  IN  /\ tk.pc = "transferFail"
      /\ \/ /\ transactions' = UpdateStatus(tk.found, "failed")
            /\ tasks' = [tasks EXCEPT ![t] = Returned(tk, TRUE, "", wallets)]
            /\ UNCHANGED <<wallets, tips, referrals, users, payouts,
                           webhookLogs, now, calls, faults, expected>>
         \/ Fault(t, RouteFailed(tk))

\* u1 has opened a payment link (createPaymentLink wrote the pending deposit)
\* and has a withdrawal in flight at the gateway
InitWebhook ==
  /\ \E balance \in InitBalances :
       /\ wallets = [i \in {2} |->
                       [createWalletData(2, "u1") EXCEPT
                          !.balance = balance,
                          !.totalWithdrawals = Limits("withdrawal").minimum]]
       /\ expected = [u \in Users |-> IF u = "u1" THEN balance ELSE 0]
  /\ \E amount \in Amounts :
       transactions =
         {[id |-> <<0, "payment">>, userId |-> "u1", type |-> "deposit",
           amount |-> amount, status |-> "pending", fee |-> 0,
           netAmount |-> amount, createdAt |-> 0, seq |-> 0],
          [id |-> <<-1, "withdrawal">>, userId |-> "u1", type |-> "withdrawal",
           amount |-> -Limits("withdrawal").minimum, status |-> "pending",
           fee |-> WithdrawalFee(Limits("withdrawal").minimum),
           netAmount |-> -(Limits("withdrawal").minimum
                             - WithdrawalFee(Limits("withdrawal").minimum)),
           createdAt |-> 0, seq |-> 1],
          [id |-> <<-1, "fee">>, userId |-> "u1", type |-> "fee",
           amount |-> -WithdrawalFee(Limits("withdrawal").minimum),
           status |-> "completed", fee |-> 0,
           netAmount |-> -WithdrawalFee(Limits("withdrawal").minimum),
           createdAt |-> 0, seq |-> 2]}
  /\ payouts = {[reference |-> -1, userId |-> "u1",
                 amount |-> Limits("withdrawal").minimum
                              - WithdrawalFee(Limits("withdrawal").minimum)]}
  /\ tips = {}
  /\ referrals = <<>>
  /\ users = [u \in Users |-> [referredBy |-> "", createdAt |-> 0]]
  /\ webhookLogs = <<>>
  /\ now = 0
  /\ tasks = [t \in TaskIds |-> IdleTask]
  /\ calls = 0
  /\ faults = 0

StepWebhook(t) ==
  \/ webhookPaystackReceive(t)
  \/ handleWebhookLog(t)
  \/ processSuccessfulPaymentFind(t)
  \/ processSuccessfulPaymentComplete(t)
  \/ webhookCreditRead(t)
  \/ webhookCreditUpdate(t)
  \/ webhookCreditRecord(t)
  \/ processFailedPaymentFind(t)
  \/ processFailedPaymentUpdate(t)
  \/ handleWebhookMark(t)
  \/ handleWebhookMarkUpdate(t)
  \/ webhookTransferReceive(t)
  \/ webhookTransferComplete(t)
  \/ webhookTransferFail(t)
  \/ StepWithdrawal(t)

NextWebhook == \E t \in TaskIds : StepWebhook(t)

SpecWebhook == InitWebhook /\ [][NextWebhook]_vars

NextWebhookSeq == \E t \in TaskIds : OthersIdle(t) /\ StepWebhook(t)

SpecWebhookSeq == InitWebhook /\ [][NextWebhookSeq]_vars

\* ===================================================================== claims
Quiet == \A t \in TaskIds : tasks[t].pc \in {"idle", "done"}

Finished(t, op) == tasks[t].pc = "done" /\ tasks[t].op = op

\* the documents a call wrote
TransactionsOf(call) == {x \in transactions : x.id[1] = call}
TipsOf(call) == {x \in tips : x.id = call}

OneWalletPerUser ==
  \A i, j \in DOMAIN wallets : wallets[i].userId = wallets[j].userId => i = j

\* C1: no wallet document ever holds a negative balance, whatever the
\* interleaving of the reads and writes of creditWallet, debitWallet,
\* processTip and processWithdrawal calls with amount > 0.
C1_BalanceNonNegative == \A i \in DOMAIN wallets : wallets[i].balance >= 0

\* two debits of one wallet that both read it before either wrote it
C1_Witness ==
  \E t1, t2 \in TaskIds :
    /\ t1 # t2
    /\ Finished(t1, "debitWallet") /\ Finished(t2, "debitWallet")
    /\ tasks[t1].success /\ tasks[t2].success
    /\ tasks[t1].userId = tasks[t2].userId
    /\ tasks[t1].before = tasks[t2].before

\* C2: concurrent debitWallet calls are atomic: when two debits of amount A
\* on one wallet have both returned (no store failure), the balance has
\* decreased by A times the number of them that reported success.
C2_ConcurrentDebitsAtomic ==
  \A t1, t2 \in TaskIds :
    ( /\ t1 # t2
      /\ Finished(t1, "debitWallet") /\ Finished(t2, "debitWallet")
      /\ tasks[t1].userId = tasks[t2].userId
      /\ tasks[t1].amount = tasks[t2].amount
      /\ calls = 2 /\ faults = 0 )
    => Balance(tasks[t1].userId) = expected[tasks[t1].userId]

\* C3: a successful processTip of gross amount G charges the fee F = 2% of G
\* rounded half-up (0 <= F <= G, whatever the platform), takes exactly G from
\* the sender, gives exactly G - F to the recipient, and writes a 'fee'
\* transaction of F against the sender exactly when F > 0.
C3_TipConservation ==
  \A t \in TaskIds :
    (Finished(t, "processTip") /\ tasks[t].success) =>
      LET tk == tasks[t]
          G == tk.amount
          feeTransactions == {x \in TransactionsOf(tk.call) : x.type = "fee"}
      IN  \E tip \in TipsOf(tk.call) :
            LET F == tip.fee
            IN  /\ 100 * F <= 2 * G + 50 /\ 2 * G + 50 < 100 * F + 100
                /\ 0 <= F /\ F <= G
                /\ BalanceIn(tk.after, tk.userId) = BalanceIn(tk.before, tk.userId) - G
                /\ BalanceIn(tk.after, tk.otherId) =
                     BalanceIn(tk.before, tk.otherId) + G - F
                /\ F = 0 => feeTransactions = {}
                /\ F > 0 => /\ Cardinality(feeTransactions) = 1
                            /\ \A x \in feeTransactions :
                                 x.userId = tk.userId /\ x.amount = -F

\* a successful tip of 25, whose 2% is the half unit 0.5, rounded up to 1
C3_Witness ==
  \E t \in TaskIds :
    /\ Finished(t, "processTip") /\ tasks[t].success
    /\ tasks[t].amount = 25
    /\ \E x \in TransactionsOf(tasks[t].call) : x.type = "fee" /\ x.amount = -1

\* C4: concurrent processTip calls on the same wallet lose no update: when
\* two tips have both returned success (no store failure, one wallet per
\* user), every balance is the initial balance minus the gross amounts sent
\* plus the net amounts received.
C4_ConcurrentTipsLoseNoUpdate ==
  \A t1, t2 \in TaskIds :
    ( /\ t1 # t2
      /\ Finished(t1, "processTip") /\ Finished(t2, "processTip")
      /\ tasks[t1].success /\ tasks[t2].success
      /\ calls = 2 /\ faults = 0 /\ OneWalletPerUser )
    => \A u \in WalletUsers : Balance(u) = expected[u]

\* C5: when the recipient's wallet write fails after the sender's wallet
\* write succeeded, processTip returns with the sender's balance back at its
\* pre-tip value and a Tip record of status 'failed'.
C5_TipCreditFailureRefunded ==
  \A t \in TaskIds :
    (Finished(t, "processTip") /\ tasks[t].at = "tipUpdateRecipient") =>
      /\ BalanceIn(tasks[t].after, tasks[t].userId) =
           BalanceIn(tasks[t].before, tasks[t].userId)
      /\ \E tip \in TipsOf(tasks[t].call) : tip.status = "failed"

\* C9: processTip rejects every amount outside the tip Limit Policy (minimum
\* 10, maximum 50 000, daily cap 100 000) before any balance change or record
\* write, whichever caller invoked it.
C9_TipLimitsEnforced ==
  \A t \in TaskIds :
    Finished(t, "processTip") =>
      LET tk == tasks[t]
          earlier == {x \in transactions : x.userId = tk.userId /\ x.id[1] # tk.call}
          error == validateTransactionLimits(tk.amount, "tip", earlier)
      IN  error # "" =>
            /\ ~tk.success
            /\ \A u \in WalletUsers : BalanceIn(tk.after, u) = BalanceIn(tk.before, u)
            /\ TransactionsOf(tk.call) = {} /\ TipsOf(tk.call) = {}

\* C10: a processTip call with senderId = recipientId returns the self-tip
\* error having created or changed no wallet and written no Tip or
\* Transaction record.
C10_SelfTipRejected ==
  \A t \in TaskIds :
    (Finished(t, "processTip") /\ tasks[t].userId = tasks[t].otherId) =>
      /\ ~tasks[t].success /\ tasks[t].error = "Cannot tip yourself"
      /\ tasks[t].after = tasks[t].before
      /\ TransactionsOf(tasks[t].call) = {} /\ TipsOf(tasks[t].call) = {}

\* a self-tip of a funded user has returned
C10_Witness ==
  \E t \in TaskIds :
    /\ Finished(t, "processTip") /\ tasks[t].userId = tasks[t].otherId
    /\ BalanceIn(tasks[t].before, tasks[t].userId) >= tasks[t].amount


\* ------------------------------------------------------------ referral claims
\* the records a processReferral call wrote
ReferralsOf(call) == {id \in DOMAIN referrals : id[1] = call}

\* the level-1 records of a pair among the given records
Level1Records(rs, referrerId, referredId) ==
  {id \in DOMAIN rs : /\ rs[id].referrerId = referrerId
                       /\ rs[id].referredId = referredId
                       /\ rs[id].level = 1}

\* the referred user of the call has three referrers above it
ChainExists(tk) ==
  /\ users[tk.userId].referredBy # ""
  /\ users[users[tk.userId].referredBy].referredBy # ""

Level2ReferrerOf(tk) == users[tk.userId].referredBy

\* the level-2 referrer's account is at least MIN_ACTIVE_DAYS days old
OldEnough(userId) == now - users[userId].createdAt >= MIN_ACTIVE_DAYS

\* C6: a processReferral call made for a pair after an earlier call for that
\* pair has returned with its level-1 record written returns the error
\* 'Referral already exists', creates no referral record at any level, credits
\* no wallet, and leaves exactly one level-1 record for the pair.
C6_SecondReferralRejected ==
  \A t \in TaskIds :
    LET tk == tasks[t]
    IN  (/\ Finished(t, "processReferral")
         /\ Level1Records(tk.beforeReferrals, tk.userId, tk.otherId) # {})
        => /\ ~tk.success
           /\ tk.error = "Referral already exists"
           /\ ReferralsOf(tk.call) = {}
           /\ referrals = tk.beforeReferrals
           /\ TransactionsOf(tk.call) = {}
           /\ tk.after = tk.before
           /\ wallets = tk.before
           /\ Cardinality(Level1Records(referrals, tk.userId, tk.otherId)) = 1

C6_Witness ==
  \E t \in TaskIds :
    /\ Finished(t, "processReferral")
    /\ tasks[t].userId = "u3"
    /\ tasks[t].otherId = "u4"
    /\ Level1Records(tasks[t].beforeReferrals, "u3", "u4") # {}
    /\ tasks[t].error = "Referral already exists"
    /\ Cardinality(DOMAIN referrals) = 3

\* C7: in every reachable state at most one referral record exists per
\* (referrerId, referredId) pair, at any level, also when two processReferral
\* calls for the same registration overlap.
C7_ReferralPairUnique ==
  \A i, j \in DOMAIN referrals :
    (/\ referrals[i].referrerId = referrals[j].referrerId
     /\ referrals[i].referredId = referrals[j].referredId) => i = j

TodayWithdrawalTotal(xs, userId) ==
  SumAbsAmounts({x \in xs : /\ x.userId = userId
                            /\ x.type = "withdrawal"
                            /\ x.createdAt >= now})

\* the transaction documents written before a call began, calls made one
\* after another
TransactionsBefore(call) == {x \in transactions : x.id[1] < call}

PayoutsOf(call) == {p \in payouts : p.reference = call}

\* C11: processWithdrawal rejects an amount A whenever the user's withdrawals
\* created today total T with T + A > 1 000 000, whatever the number of
\* transactions created today; on the rejection the wallets are unchanged, no
\* payout is initiated and no transaction is written; so the withdrawals of
\* one day never total more than 1 000 000.
C11_DailyWithdrawalCap ==
  /\ \A t \in TaskIds :
       LET tk == tasks[t]
       IN  (/\ Finished(t, "processWithdrawal")
            /\ tk.before # <<>>
            /\ WalletIn(tk.before, tk.userId) # NoWallet
            /\ TodayWithdrawalTotal(TransactionsBefore(tk.call), tk.userId)
                  + tk.amount > WithdrawalDailyLimit)
           => /\ ~tk.success
              /\ tk.after = tk.before
              /\ PayoutsOf(tk.call) = {}
              /\ TransactionsOf(tk.call) = {}
  /\ \A u \in Users : TodayWithdrawalTotal(transactions, u) <= WithdrawalDailyLimit

\* ------------------------------------------------------- credit / debit claims
\* the errors a creditWallet or debitWallet call reports when it applied
\* nothing: the checks before the balance write, and the rejected balance write
NothingAppliedErrors == {"Wallet not found", "Insufficient balance", StoreError}

\* C12: when the transaction-record write fails after the balance write of
\* creditWallet or debitWallet succeeded, the reported result differs from
\* every result reported by a failure that applied nothing.
C12_PartialFailureReported ==
  \A t \in TaskIds :
    LET tk == tasks[t]
    IN  (/\ tk.pc = "done"
         /\ tk.op \in {"creditWallet", "debitWallet"}
         /\ tk.at \in {"creditRecord", "debitRecord"}
         /\ ~tk.success
         /\ BalanceIn(tk.after, tk.userId) # BalanceIn(tk.before, tk.userId))
        => tk.error \notin NothingAppliedErrors

\* C13: creditWallet for a user without a wallet fails with 'Wallet not found',
\* creates no wallet, writes no transaction and leaves every wallet as it was.
C13_CreditWithoutWallet ==
  \A t \in TaskIds :
    LET tk == tasks[t]
    IN  (/\ Finished(t, "creditWallet")
         /\ \A i \in DOMAIN tk.before : tk.before[i].userId # tk.userId)
        => /\ ~tk.success
           /\ tk.error = "Wallet not found"
           /\ tk.after = tk.before
           /\ DOMAIN tk.after = DOMAIN tk.before
           /\ TransactionsOf(tk.call) = {}

C13_Witness ==
  \E t \in TaskIds :
    /\ Finished(t, "creditWallet")
    /\ tasks[t].userId = "u2"
    /\ \A i \in DOMAIN tasks[t].before : tasks[t].before[i].userId # "u2"
    /\ DOMAIN tasks[t].before # {}
    /\ tasks[t].error = "Wallet not found"

\* C14: at most one wallet document exists per user id after any ensureWalletExists
\* calls and lazy recipient-wallet creations of processTip, overlapping ones
\* included, and an ensureWalletExists call for a user who has a wallet returns
\* that wallet and changes nothing.
C14_OneWalletPerUser ==
  /\ \A i, j \in DOMAIN wallets : wallets[i].userId = wallets[j].userId => i = j
  /\ \A t \in TaskIds :
       LET tk == tasks[t]
       IN  (/\ Finished(t, "ensureWalletExists")
            /\ WalletIn(tk.before, tk.userId) # NoWallet)
           => /\ tk.success
              /\ tk.wallet = WalletIn(tk.before, tk.userId)
              /\ tk.after = tk.before

\* -------------------------------------------------------------- webhook claims
WebhookOps == {"webhookPaystack", "webhookTransfer"}

\* the credits written for deliveries about one reference
CreditsFor(kind, reference) ==
  {x \in transactions : Len(x.id) = 3 /\ x.id[2] = kind /\ x.id[3] = reference}

\* C15: a delivery whose signature is not valid for its payload, mismatching
\* or absent, changes neither a wallet nor a transaction.
C15_UnsignedDeliveryMutatesNothing ==
  \A t \in TaskIds :
    LET tk == tasks[t]
    IN  (tk.op \in WebhookOps /\ tk.signature # "valid" /\ tk.call = calls)
        => /\ wallets = tk.before
           /\ transactions = tk.beforeTransactions

\* C16: however many deliveries of charge.success arrive for one reference,
\* overlapping ones included, the wallet is credited for that deposit at most
\* once.
C16_ChargeCreditedOnce ==
  faults = 0 =>
    \A x \in transactions :
      x.id[2] = "payment" => Cardinality(CreditsFor("funding", x.id[1])) <= 1

\* C17: however many deliveries of transfer.failed or transfer.reversed arrive
\* for one withdrawal, the refund is applied at most once and never exceeds
\* the amount the withdrawal debited.
C17_TransferRefundedOnce ==
  faults = 0 =>
    \A x \in transactions :
      x.id[2] = "withdrawal" =>
        /\ Cardinality(CreditsFor("refund", x.id[1])) <= 1
        /\ SumAbsAmounts(CreditsFor("refund", x.id[1])) <= Abs(x.amount)

\* the status a transaction document has among the given documents
StatusIn(xs, id) == (CHOOSE x \in xs : x.id = id).status

\* C18: a successful processWithdrawal of amount A debits the wallet by A and
\* records the withdrawal as pending; the transfer.failed or transfer.reversed
\* delivery processed for a pending withdrawal, nothing else in between, gives
\* the amount back and marks the transaction failed; transfer.success marks it
\* completed and leaves the balance.
C18_WithdrawalSettlement ==
  \A t \in TaskIds :
    LET tk == tasks[t]
    IN  /\ (Finished(t, "processWithdrawal") /\ tk.success /\ tk.call = calls)
           => /\ BalanceIn(wallets, tk.userId)
                   = BalanceIn(tk.before, tk.userId) - tk.amount
              /\ \E x \in transactions :
                   /\ x.id = <<tk.call, "withdrawal">>
                   /\ x.status = "pending"
                   /\ x.amount = -tk.amount
        /\ (/\ Finished(t, "webhookTransfer")
            /\ tk.success
            /\ tk.signature = "valid"
            /\ tk.found # <<>>
            /\ tk.call = calls
            /\ StatusIn(tk.beforeTransactions, tk.found) = "pending")
           => IF tk.event = "transfer.success"
              THEN /\ StatusIn(transactions, tk.found) = "completed"
                   /\ wallets = tk.before
              ELSE /\ StatusIn(transactions, tk.found) = "failed"
                   /\ BalanceIn(wallets, tk.userId)
                        = BalanceIn(tk.before, tk.userId) + tk.amount

\* the status of the record a processReferral call wrote at a level, "none"
\* when it wrote none
LevelStatus(call, level) ==
  IF <<call, level>> \in DOMAIN referrals THEN referrals[<<call, level>>].status
  ELSE "none"

\* the bonus credits a processReferral call recorded for a level
LevelCredits(call, level) ==
  {x \in transactions : x.id = <<call, "bonus", <<call, level>>>>}

\* C19: with every store write accepted, a call's level-2 record exists only
\* when its level-1 record is completed, and its level-3 record exists, or its
\* level-3 referrer is credited, only when its level-2 record is completed.
C19_CascadeStopsAtFailedLevel ==
  faults = 0 =>
    \A call \in 1..calls :
      /\ LevelStatus(call, 2) # "none" => LevelStatus(call, 1) = "completed"
      /\ (LevelStatus(call, 3) # "none" \/ LevelCredits(call, 3) # {})
           => LevelStatus(call, 2) = "completed"

\* the ids a referral record can have
ReferralIds == (1..MaxCalls) \X (1..MAX_REFERRAL_LEVELS)

\* the referrer of the record has a wallet
ReferrerHasWallet(id) == getWalletByUserId(referrals[id].referrerId) # NoWallet

\* a record is completed only after a bonus credit for it was recorded: a
\* record whose credit failed is pending
FailedCreditLeftPending ==
  \A id \in DOMAIN referrals :
    referrals[id].status = "completed"
      => \E x \in transactions : /\ x.id[2] = "bonus"
                                 /\ x.id[3] = id
                                 /\ x.type = "referral_bonus"

\* the records a sweep found pending that have the given status now
SweptNow(tk, status) ==
  {id \in DOMAIN tk.beforeReferrals :
     /\ tk.beforeReferrals[id].status = "pending"
     /\ referrals[id].status = status}

\* a returned sweep counted as processed the records it completed and as
\* failed the records it left pending
SweepCountsFailed ==
  \A t \in TaskIds :
    LET tk == tasks[t]
    IN  (Finished(t, "processPendingBonuses") /\ OthersIdle(t))
        => /\ tk.processed = Cardinality(SweptNow(tk, "completed"))
           /\ tk.failed = Cardinality(SweptNow(tk, "pending"))

\* a pending record whose referrer has a wallet is completed in the end
PendingEventuallyCompleted ==
  \A id \in ReferralIds :
    (LevelStatus(id[1], id[2]) = "pending" /\ ReferrerHasWallet(id))
    ~> (LevelStatus(id[1], id[2]) = "completed")

\* C20: a referral whose bonus credit failed is pending; with the sweep run
\* again and again, every pending referral whose referrer has a wallet is
\* marked completed in the end; a record whose credit fails again in a sweep
\* stays pending and is counted in the sweep's failed.
C20_PendingSweptToCompleted ==
  /\ []FailedCreditLeftPending
  /\ []SweepCountsFailed
  /\ PendingEventuallyCompleted

\* with no store failure, a sweep completed a record left pending because its
\* referrer had no wallet when the cascade ran, and left another pending
C20_Witness ==
  \E t \in TaskIds :
    /\ Finished(t, "processPendingBonuses")
    /\ faults = 0
    /\ tasks[t].processed >= 1
    /\ tasks[t].failed >= 1
    /\ \E id \in SweptNow(tasks[t], "completed") :
         /\ referrals[id].referrerId = "u2"
         /\ \E x \in transactions : x.id = <<0, "bonus", id>>

\* ----------------------------------------------------------- limits claims
\* the bounds as the specification states them
StatedLimits(type) ==
  CASE type = "tip" -> <<10, 50000, 100000>>
    [] type = "withdrawal" -> <<100, 500000, 1000000>>
    [] type = "deposit" -> <<100, 2000000, 5000000>>

\* the transaction type that counts against an operation type's daily cap
CountedType(type) == IF type = "tip" THEN "tip_sent" ELSE type

\* the sum of the absolute amounts of today's transactions of the counted type
SameTypeToday(xs, type) ==
  SumAbsAmounts({x \in xs : x.type = CountedType(type) /\ x.createdAt >= now})

\* C21: a validation answers valid exactly when the amount is within
\* [minimum, maximum] and today's same-type total plus the amount stays within
\* the daily cap, and otherwise names the first violated bound in the order
\* minimum, maximum, daily cap.
C21_LimitsValidation ==
  \A t \in TaskIds :
    LET tk == tasks[t]
        stated == StatedLimits(tk.event)
        today == SameTypeToday(tk.beforeTransactions, tk.event)
    IN  Finished(t, "validateTransactionLimits")
        => /\ tk.success <=> /\ stated[1] <= tk.amount
                             /\ tk.amount <= stated[2]
                             /\ today + tk.amount <= stated[3]
           /\ tk.error = IF tk.amount < stated[1] THEN "Minimum amount"
                         ELSE IF tk.amount > stated[2] THEN "Maximum amount"
                         ELSE IF today + tk.amount > stated[3]
                         THEN "Daily limit exceeded"
                         ELSE ""

\* an amount within its bounds is refused for the daily cap alone, with
\* transactions of other types and of yesterday in the list
C21_Witness ==
  \E t \in TaskIds :
    LET tk == tasks[t]
    IN  /\ Finished(t, "validateTransactionLimits")
        /\ tk.error = "Daily limit exceeded"
        /\ \E x \in tk.beforeTransactions : x.type # CountedType(tk.event)
        /\ \E x \in tk.beforeTransactions :
             x.type = CountedType(tk.event) /\ x.createdAt < now

\* ------------------------------------------------------- tip ordering claims
\* a running total of a user's wallet among the given wallets, 0 without wallet
TipsSentIn(ws, userId) ==
  IF WalletIn(ws, userId) = NoWallet THEN 0 ELSE WalletIn(ws, userId).totalTipsSent

TipsReceivedIn(ws, userId) ==
  IF WalletIn(ws, userId) = NoWallet THEN 0
  ELSE WalletIn(ws, userId).totalTipsReceived

\* the call's debit of the sender is in the store
TipDebited(tk) ==
  TipsSentIn(wallets, tk.userId) = TipsSentIn(tk.before, tk.userId) + tk.amount

\* the call's credit of the recipient is in the store
TipCredited(tk) ==
  TipsReceivedIn(wallets, tk.otherId) > TipsReceivedIn(tk.before, tk.otherId)

\* the tip and transaction records the call wrote
TipRecordsOf(tk) ==
  {x \in tips : x.id = tk.call} \cup {x \in transactions : x.id[1] = tk.call}

\* C22: at every step of a processTip call, the recipient is credited only
\* when the sender is debited, and a tip or transaction record of the call
\* exists only when both wallet writes are in the store.
C22_DebitBeforeCredit ==
  \A t \in TaskIds :
    LET tk == tasks[t]
    IN  (tk.op = "processTip" /\ tk.call = calls)
        => /\ TipCredited(tk) => TipDebited(tk)
           /\ TipRecordsOf(tk) # {} => TipCredited(tk) /\ TipDebited(tk)

\* a call stopped between the two wallet writes: the sender is debited, the
\* recipient is not credited and nothing is recorded
C22_Witness ==
  \E t \in TaskIds :
    LET tk == tasks[t]
    IN  /\ Finished(t, "processTip")
        /\ tk.call = calls
        /\ tk.at = "tipUpdateRecipient"
        /\ TipDebited(tk)
        /\ ~TipCredited(tk)
        /\ TipRecordsOf(tk) = {}

\* ------------------------------------------------------ running-total claims
DepositsIn(ws, userId) ==
  IF WalletIn(ws, userId) = NoWallet THEN 0 ELSE WalletIn(ws, userId).totalDeposits

\* C23: the refund that a transfer.failed or transfer.reversed delivery
\* credits for a failed withdrawal is no deposit: it leaves totalDeposits as
\* it was and its transaction record is not of type 'deposit'.
C23_RefundIsNoDeposit ==
  \A t \in TaskIds :
    LET tk == tasks[t]
    IN  (tk.op = "webhookTransfer" /\ tk.signature = "valid" /\ tk.call = calls)
        => /\ DepositsIn(wallets, tk.userId) = DepositsIn(tk.before, tk.userId)
           /\ \A x \in CreditsFor("refund", tk.reference) :
                x.id[1] = tk.call => x.type # "deposit"

\* C24: every wallet's balance is what its running totals add up to:
\* totalDeposits + totalTipsReceived + totalReferralEarnings
\* - totalWithdrawals - totalTipsSent.
C24_BalanceMatchesTotals ==
  \A i \in DOMAIN wallets :
    wallets[i].balance =
      wallets[i].totalDeposits + wallets[i].totalTipsReceived
        + wallets[i].totalReferralEarnings
        - wallets[i].totalWithdrawals - wallets[i].totalTipsSent

\* --------------------------------------------------- referral credit claims
\* the referral_bonus transactions recorded for a referral record, by any call
BonusCreditsOf(id) ==
  {x \in transactions :
     /\ Len(x.id) = 3
     /\ x.id[2] = "bonus"
     /\ x.id[3] = id
     /\ x.type = "referral_bonus"}

\* C25: no referral record has more than one referral_bonus credit.
C25_OneBonusPerReferral ==
  \A id \in DOMAIN referrals : Cardinality(BonusCreditsOf(id)) <= 1

\* ------------------------------------------------------------ payout claims
RECURSIVE SumPayouts(_)
SumPayouts(S) ==
  IF S = {} THEN 0
  ELSE LET p == CHOOSE q \in S : TRUE
       IN  p.amount + SumPayouts(S \ {p})

\* what the gateway was told to pay out to a user's bank account, net of fees
PaidOut(userId) == SumPayouts({p \in payouts : p.userId = userId})

\* what the wallet records as withdrawn
WithdrawnIn(ws, userId) ==
  IF WalletIn(ws, userId) = NoWallet THEN 0
  ELSE WalletIn(ws, userId).totalWithdrawals

NoCallInFlight == \A t \in TaskIds : tasks[t].pc \in {"idle", "done"}

\* C26: once the calls have returned, the payouts initiated for a user, even
\* counted net of their fees, never total more than what was debited from the
\* user's wallet.
C26_PayoutsCoveredByDebits ==
  NoCallInFlight =>
    \A userId \in WalletUsers : PaidOut(userId) <= WithdrawnIn(wallets, userId)

\* C27: a transfer delivery for a withdrawal that is already 'completed' or
\* 'failed' leaves its status and the wallets as they were.
C27_SettledWithdrawalIsTerminal ==
  \A t \in TaskIds :
    LET tk == tasks[t]
    IN  (/\ Finished(t, "webhookTransfer")
         /\ tk.signature = "valid"
         /\ tk.found # <<>>
         /\ tk.call = calls
         /\ StatusIn(tk.beforeTransactions, tk.found) \in {"completed", "failed"})
        => /\ StatusIn(transactions, tk.found)
                = StatusIn(tk.beforeTransactions, tk.found)
           /\ wallets = tk.before

\* the deliveries of an event for a reference that are logged as processed
ProcessedLogs(reference, event) ==
  {i \in DOMAIN webhookLogs : /\ webhookLogs[i].reference = reference
                              /\ webhookLogs[i].event = event
                              /\ webhookLogs[i].processed}

\* C28: when a charge.success delivery has turned the pending deposit into
\* 'completed' and is logged as processed, the user's wallet holds the
\* deposit: its balance grew by the deposit's amount during the delivery.
C28_CompletedDepositIsCredited ==
  \A t \in TaskIds :
    LET tk == tasks[t]
        id == <<tk.reference, "payment">>
    IN  (/\ Finished(t, "webhookPaystack")
         /\ tk.event = "charge.success"
         /\ tk.signature = "valid"
         /\ tk.call = calls
         /\ StatusIn(tk.beforeTransactions, id) = "pending"
         /\ StatusIn(transactions, id) = "completed"
         /\ ProcessedLogs(tk.reference, tk.event) # {})
        => BalanceIn(wallets, tk.userId)
             = BalanceIn(tk.before, tk.userId) + tk.amount

\* --------------------------------------------------------------- ledger claims
RECURSIVE SumAmounts(_)
SumAmounts(S) ==
  IF S = {} THEN 0
  ELSE LET x == CHOOSE y \in S : TRUE
       IN  x.amount + SumAmounts(S \ {x})

\* a user's balance among the given wallets, 0 before the wallet exists
BalanceOrZero(ws, userId) ==
  IF WalletIn(ws, userId) = NoWallet THEN 0 ELSE WalletIn(ws, userId).balance

\* the signed amounts of the transaction records a call wrote for a user
LedgerOf(call, userId) ==
  SumAmounts({x \in transactions : x.id[1] = call /\ x.userId = userId})

\* C29: with calls made one after another and no store failure, every
\* successful call changes each wallet's balance by the sum of the signed
\* amounts of the transaction records it wrote for the wallet's owner, so that
\* a wallet that started at zero holds the sum of its owner's records.
C29_LedgerMatchesBalance ==
  \A t \in TaskIds :
    LET tk == tasks[t]
    IN  (tk.pc = "done" /\ tk.success /\ tk.call = calls /\ faults = 0)
        => \A userId \in WalletUsers :
             BalanceOrZero(wallets, userId) - BalanceOrZero(tk.before, userId)
               = LedgerOf(tk.call, userId)

\* ------------------------------------------------------ cascade liveness claims
\* the level-1 record of a call is completed and its referrer has a referrer
Level1CompletedWithUpline(call) ==
  /\ LevelStatus(call, 1) = "completed"
  /\ users[referrals[<<call, 1>>].referrerId].referredBy # ""

\* a level-2 record exists for the referred user of the call's level-1 record
\* and the referrer's referrer
Level2Exists(call) ==
  /\ <<call, 1>> \in DOMAIN referrals
  /\ \E id \in DOMAIN referrals :
       /\ referrals[id].level = 2
       /\ referrals[id].referredId = referrals[<<call, 1>>].referredId
       /\ referrals[id].referrerId =
            users[referrals[<<call, 1>>].referrerId].referredBy

\* C30: unless a store write fails, a completed level-1 record whose referrer
\* has a referrer is followed by a level-2 record for that referrer's
\* referrer, whether processReferral or the sweep completed it.
C30_Level2FollowsLevel1 ==
  \A call \in 1..MaxCalls :
    Level1CompletedWithUpline(call) ~> (Level2Exists(call) \/ faults > 0)

====
